---- MODULE Spec2Model ----
(***************************************************************************)
(* The client kernel of spotify-rs (src/client.rs): the authentication     *)
(* typestate (UnAuthenticated -> Token), the token refresh and the request *)
(* pipeline (freshness check, request build, dispatch, decode, error       *)
(* lift).  Every async operation is cut at its await points: the action    *)
(* "...Start" runs the code up to the first await (the HTTP call is on the *)
(* wire), the action "...Return" runs the code after it.  Dropping the     *)
(* future at an await point is the action Cancel.                          *)
(***************************************************************************)
EXTENDS Integers, Sequences, FiniteSets, TLC

\* ------------------------------------------------------------------ bounds
\* The wall clock runs over 0..MaxTime.
MaxTime == 2
\* The token endpoint issues at most MaxIssued tokens in one behaviour.
MaxIssued == 2

\* ------------------------------------------------------- the value domains
AuthCodeGrantFlow == "AuthCodeGrantFlow"
AuthCodeGrantPKCEFlow == "AuthCodeGrantPKCEFlow"
ClientCredsGrantFlow == "ClientCredsGrantFlow"

\* The three implementations of the AuthFlow trait.
AuthFlow == {AuthCodeGrantFlow, AuthCodeGrantPKCEFlow, ClientCredsGrantFlow}

\* The flows that implement the marker trait Authorised.
Authorised == {AuthCodeGrantFlow, AuthCodeGrantPKCEFlow}

\* The values CsrfToken::new_random can produce, and the values a caller can
\* pass as csrf_state.
CsrfStates == {"s1", "s2"}

\* The refresh tokens a caller can pass to from_refresh_token.
CallerRefreshTokens == {[by |-> "caller", n |-> 1], [by |-> "caller", n |-> 2]}

\* The lifetimes (expires_in) the token endpoint grants.
ExpiresIn == {0, 2}

\* The HTTP statuses the API answers with.
Statuses == {200, 304, 403}

\* The shapes of a response body: a JSON document of the endpoint's result
\* type, the upstream error envelope, or something else (an HTML page).
Bodies == {"value", "envelope", "html"}

\* Option<T>: None is <<>>, Some(x) is <<x>>.
None == <<>>
Some(x) == <<x>>

\* ---------------------------------------------------------------- Token
\* Access tokens are numbered in the order the token endpoint issues them
\* (0: none); a refresh token is [by, n]: supplied by the caller or issued
\* upstream.
\* auth::Token as the token endpoint's JSON decodes to it: the timestamps
\* are not part of the response and hold their defaults until
\* set_timestamps runs.  stamped records whether set_timestamps has run.
DecodeToken(at, rt, ein) ==
    [access_token |-> at, refresh_token |-> rt, expires_in |-> ein,
     created_at |-> 0, expires_at |-> 0, stamped |-> FALSE]

\* Token::set_timestamps(self): issuance = now, expiry = now + expires_in.
set_timestamps(t, clock) ==
    [t EXCEPT !.created_at = clock,
              !.expires_at = clock + t.expires_in,
              !.stamped = TRUE]

\* Token::is_expired(&self): now >= expires_at.
is_expired(t, clock) == clock >= t.expires_at

\* The auth field of a client in the UnAuthenticated state (a unit value).
UnAuthenticated == DecodeToken(0, None, 0)

\* ------------------------------------------------------------ the errors
Ok == [kind |-> "Ok", status |-> 0]
Err(k) == [kind |-> k, status |-> 0]
NoResult == [kind |-> "none", status |-> 0]

\* From<RequestTokenError> for Error: whatever the adapter reports (a
\* server response such as invalid_grant, a transport failure, a parse
\* failure) is surfaced as the OAuth error kind.
FromRequestTokenError(e) == Err("OAuth")

\* From<reqwest::Error> for Error: a body that does not decode is
\* MalformedResponse, any other failure is Transport.
FromReqwestError(e) ==
    IF e = "decode" THEN Err("MalformedResponse") ELSE Err("Transport")

\* From<SpotifyError> for Error: the Api error carrying the envelope.
FromSpotifyError(status) == [kind |-> "Api", status |-> status]

\* ------------------------------------------------------------- the wire
\* A POST to /api/token.  secret is what is presented: the refresh token,
\* the authorization code, or nothing (client credentials).
TokenCall(grant, secret, pkce) ==
    [target |-> "token", method |-> "POST", grant |-> grant,
     secret |-> secret, pkce |-> pkce, bearer |-> 0,
     body |-> Some([kind |-> "Form", data |-> <<>>]),
     content_type |-> Some("application/x-www-form-urlencoded"),
     content_length |-> None]

VARIABLES
    now,           \* the wall clock
    phase,         \* "NoClient", "UnAuthenticated" or "Token": the typestate
    flow,          \* the client's flow tag F
    auto_refresh,  \* Client.auto_refresh
    auth,          \* Client.auth
    handle,        \* the Authorisation / AuthorisationPKCE the caller holds
    op,            \* the operation in flight, or the last one that ended
    pc,            \* "idle", "exchange" (token endpoint) or "send" (API)
    req,           \* the arguments of the request in flight
    calls,         \* the HTTP calls the current operation has made
    result,        \* what the last operation returned
    issued,        \* how many tokens the token endpoint has issued
    hist           \* what the current operation started from

vars == <<now, phase, flow, auto_refresh, auth, handle, op, pc, req, calls,
          result, issued, hist>>

NoRequest ==
    [name |-> "", method |-> "", body |-> None, authorised |-> FALSE,
     image |-> <<>>]

NoHist ==
    [expired |-> FALSE, auto |-> FALSE, prior |-> UnAuthenticated,
     received |-> "", expected |-> "", supplied |-> None,
     refresh |-> "none", granted |-> None, response |-> None]

\* Client::new for every flow and policy.
Init ==
    /\ now = 0
    /\ phase = "UnAuthenticated"
    /\ flow \in AuthFlow
    /\ auto_refresh \in BOOLEAN
    /\ auth = UnAuthenticated
    /\ handle = None
    /\ op = "new"
    /\ pc = "idle"
    /\ req = NoRequest
    /\ calls = <<>>
    /\ result = NoResult
    /\ issued = 0
    /\ hist = NoHist

\* Time passes, also while a call is on the wire.
Tick ==
    /\ now < MaxTime
    /\ now' = now + 1
    /\ UNCHANGED <<phase, flow, auto_refresh, auth, handle, op, pc, req,
                   calls, result, issued, hist>>

\* --------------------------------------------------- the token endpoint
\* What a POST to /api/token can come back with: a token (with or without
\* a refresh token; the client-credentials grant never carries one), an
\* OAuth error response, or a transport failure.
TokenResponses(grant) ==
    { [outcome |-> "ok", refresh_token |-> rt, expires_in |-> ein] :
        rt \in IF grant = "client_credentials"
               THEN {None}
               ELSE {None, Some([by |-> "upstream", n |-> issued + 1])},
        ein \in IF issued < MaxIssued THEN ExpiresIn ELSE {} }
    \cup { [outcome |-> o, refresh_token |-> None, expires_in |-> 0] :
             o \in {"server_error", "transport"} }

\* The token a successful response decodes to.
Decoded(r) == DecodeToken(issued + 1, r.refresh_token, r.expires_in)

\* ------------------------------------------------------- Client::new
new(f, ar) ==
    /\ phase = "NoClient"
    /\ pc = "idle"
    /\ phase' = "UnAuthenticated"
    /\ flow' = f
    /\ auto_refresh' = ar
    /\ auth' = UnAuthenticated
    /\ op' = "new"
    /\ result' = NoResult
    /\ calls' = <<>>
    /\ hist' = NoHist
    /\ UNCHANGED <<now, handle, pc, req, issued>>

\* The caller writes the public field auto_refresh.
set_auto_refresh(ar) ==
    /\ phase # "NoClient"
    /\ pc = "idle"
    /\ ar # auto_refresh
    /\ auto_refresh' = ar
    /\ UNCHANGED <<now, phase, flow, auth, handle, op, pc, req, calls,
                   result, issued, hist>>

\* ------------------------------------------- get_authorisation (both)
\* A random CSRF state (and, for PKCE, a verifier) in a fresh handle.  The
\* client is borrowed, not consumed, and nothing is sent.
get_authorisation_pkce(c) ==
    /\ phase = "UnAuthenticated"
    /\ flow = AuthCodeGrantPKCEFlow
    /\ pc = "idle"
    /\ handle' = Some([csrf_token |-> c, pkce_verifier |-> TRUE])
    /\ UNCHANGED <<now, phase, flow, auto_refresh, auth, op, pc, req, calls,
                   result, issued, hist>>

get_authorisation(c) ==
    /\ phase = "UnAuthenticated"
    /\ flow = AuthCodeGrantFlow
    /\ pc = "idle"
    /\ handle' = Some([csrf_token |-> c, pkce_verifier |-> FALSE])
    /\ UNCHANGED <<now, phase, flow, auto_refresh, auth, op, pc, req, calls,
                   result, issued, hist>>

\* ------------------------------------------------ authenticate (code)
\* The authorization code the caller presents in the exchange.
AuthorizationCode == Some([by |-> "code", n |-> 0])

\* The check left out: every state is let through.
CsrfMismatch_Never(csrf_state, h) == FALSE

\* csrf_state != auth.csrf_token.secret()  (the early return's condition)
CsrfMismatch(csrf_state, h) == csrf_state # h.csrf_token

\* The code after `.request_async(..).await` of an exchange that builds a
\* client: `?` returns the lifted error (self was moved in, so the client
\* is gone); otherwise the decoded token, stamped when the path calls
\* set_timestamps, becomes the auth of a Token client.
ExchangeReturn(r, stamp) ==
    /\ pc' = "idle"
    /\ hist' = [hist EXCEPT
                  !.refresh = IF r.outcome = "ok" THEN "ok" ELSE "failed",
                  !.granted = IF r.outcome = "ok"
                              THEN Some(Decoded(r)) ELSE None]
    /\ IF r.outcome = "ok"
       THEN /\ auth' = IF stamp THEN set_timestamps(Decoded(r), now)
                                ELSE Decoded(r)
            /\ phase' = "Token"
            /\ issued' = issued + 1
            /\ result' = Ok
       ELSE /\ auth' = UnAuthenticated
            /\ phase' = "NoClient"
            /\ issued' = issued
            /\ result' = FromRequestTokenError(r.outcome)
    /\ UNCHANGED <<now, flow, auto_refresh, handle, op, req, calls>>

\* Client<UnAuthenticated, AuthCodeGrantPKCEFlow>::authenticate, up to the
\* await of the exchange.
authenticate_pkce(csrf_state) ==
    /\ phase = "UnAuthenticated"
    /\ flow = AuthCodeGrantPKCEFlow
    /\ pc = "idle"
    /\ handle # None
    /\ handle[1].pkce_verifier
    /\ op' = "authenticate_pkce"
    /\ handle' = None
    /\ hist' = [NoHist EXCEPT !.received = csrf_state,
                              !.expected = handle[1].csrf_token]
    /\ IF CsrfMismatch(csrf_state, handle[1])
       THEN /\ result' = Err("InvalidStateParameter")
            /\ phase' = "NoClient"
            /\ calls' = <<>>
            /\ pc' = "idle"
       ELSE /\ result' = NoResult
            /\ phase' = phase
            /\ calls' = <<TokenCall("authorization_code",
                                    AuthorizationCode, TRUE)>>
            /\ pc' = "exchange"
    /\ UNCHANGED <<now, flow, auto_refresh, auth, req, issued>>

authenticate_pkce_return(r) ==
    /\ op = "authenticate_pkce"
    /\ pc = "exchange"
    /\ ExchangeReturn(r, TRUE)

\* Client<UnAuthenticated, AuthCodeGrantFlow>::authenticate, up to the
\* await of the exchange.
authenticate_code(csrf_state) ==
    /\ phase = "UnAuthenticated"
    /\ flow = AuthCodeGrantFlow
    /\ pc = "idle"
    /\ handle # None
    /\ ~handle[1].pkce_verifier
    /\ op' = "authenticate_code"
    /\ handle' = None
    /\ hist' = [NoHist EXCEPT !.received = csrf_state,
                              !.expected = handle[1].csrf_token]
    /\ IF CsrfMismatch(csrf_state, handle[1])
       THEN /\ result' = Err("InvalidStateParameter")
            /\ phase' = "NoClient"
            /\ calls' = <<>>
            /\ pc' = "idle"
       ELSE /\ result' = NoResult
            /\ phase' = phase
            /\ calls' = <<TokenCall("authorization_code",
                                    AuthorizationCode, FALSE)>>
            /\ pc' = "exchange"
    /\ UNCHANGED <<now, flow, auto_refresh, auth, req, issued>>

authenticate_code_return(r) ==
    /\ op = "authenticate_code"
    /\ pc = "exchange"
    /\ ExchangeReturn(r, TRUE)

\* ------------------------------------- authenticate (client credentials)
\* Client<UnAuthenticated, ClientCredsGrantFlow>::authenticate, up to the
\* await of the exchange.
authenticate_creds ==
    /\ phase = "UnAuthenticated"
    /\ flow = ClientCredsGrantFlow
    /\ pc = "idle"
    /\ op' = "authenticate_creds"
    /\ result' = NoResult
    /\ hist' = NoHist
    /\ calls' = <<TokenCall("client_credentials", None, FALSE)>>
    /\ pc' = "exchange"
    /\ UNCHANGED <<now, phase, flow, auto_refresh, auth, handle, req, issued>>

\* The code after the await: the decoded token goes into the client as it
\* is; set_timestamps is not called on this path.
authenticate_creds_return(r) ==
    /\ op = "authenticate_creds"
    /\ pc = "exchange"
    /\ ExchangeReturn(r, FALSE)

\* ------------------------------------------------- from_refresh_token
\* Client<Token, F>::from_refresh_token, up to the await of the exchange:
\* the supplied refresh token is presented to the token endpoint.
from_refresh_token(f, ar, rt) ==
    /\ phase = "NoClient"
    /\ pc = "idle"
    /\ flow' = f
    /\ auto_refresh' = ar
    /\ op' = "from_refresh_token"
    /\ result' = NoResult
    /\ hist' = [NoHist EXCEPT !.supplied = Some(rt)]
    /\ calls' = <<TokenCall("refresh_token", Some(rt), FALSE)>>
    /\ pc' = "exchange"
    /\ UNCHANGED <<now, phase, auth, handle, req, issued>>

from_refresh_token_return(r) ==
    /\ op = "from_refresh_token"
    /\ pc = "exchange"
    /\ ExchangeReturn(r, TRUE)

\* ----------------------------------------------- request_refresh_token
\* `&mut self` checked as a shared borrow would be: a call can start while
\* another is in flight.
ExclusiveBorrow_Shared == TRUE

\* `&mut self`: a pipeline operation can start only while no other
\* operation (nor a builder) holds the client.
ExclusiveBorrow == pc = "idle"

\* The guard left out: the exchange is attempted with whatever is stored.
HasRefreshToken_Always(t) == TRUE

\* `let Some(refresh_token) = &self.auth.refresh_token else { return Err }`
HasRefreshToken(t) == t.refresh_token # None

\* The assignment left out: the new token is dropped.
InstallToken_KeepPrior(prior, token) == prior

\* `self.auth = token`: the decoded, stamped token replaces the whole auth.
InstallToken(prior, token) == token

\* request_refresh_token up to its await: without a refresh token it
\* returns RefreshUnavailable at once, otherwise the stored refresh token is
\* presented to the token endpoint.  The value is what the call has made of
\* (result, calls, pc) so far.
RefreshStart ==
    IF HasRefreshToken(auth)
    THEN [result |-> NoResult, pc |-> "exchange",
          calls |-> <<TokenCall("refresh_token", auth.refresh_token, FALSE)>>]
    ELSE [result |-> Err("RefreshUnavailable"), pc |-> "idle",
          calls |-> <<>>]

\* request_refresh_token after its await: `?` returns the lifted error and
\* leaves self.auth alone; otherwise the token is stamped and installed.
RefreshResult(r) ==
    IF r.outcome = "ok" THEN Ok ELSE FromRequestTokenError(r.outcome)

\* The stored refresh token taken out of self.auth before the exchange
\* (`self.auth.refresh_token.take()`): a failed exchange leaves it gone.
RefreshedAuth_Taken(r) ==
    IF r.outcome = "ok"
    THEN set_timestamps(Decoded(r), now)
    ELSE [auth EXCEPT !.refresh_token = None]

RefreshedAuth(r) ==
    IF r.outcome = "ok"
    THEN InstallToken(auth, set_timestamps(Decoded(r), now))
    ELSE auth

RefreshHist(r) ==
    [hist EXCEPT !.refresh = IF r.outcome = "ok" THEN "ok" ELSE "failed",
                 !.granted = IF r.outcome = "ok"
                             THEN Some(Decoded(r)) ELSE None]

\* The caller invokes request_refresh_token itself.
request_refresh_token ==
    /\ phase = "Token"
    /\ ExclusiveBorrow
    /\ op' = "request_refresh_token"
    /\ hist' = [NoHist EXCEPT !.expired = is_expired(auth, now),
                              !.auto = auto_refresh,
                              !.prior = auth,
                              !.refresh = IF RefreshStart.pc = "idle"
                                          THEN "failed" ELSE "none"]
    /\ result' = RefreshStart.result
    /\ calls' = RefreshStart.calls
    /\ pc' = RefreshStart.pc
    /\ UNCHANGED <<now, phase, flow, auto_refresh, auth, handle, req, issued>>

request_refresh_token_return(r) ==
    /\ op = "request_refresh_token"
    /\ pc = "exchange"
    /\ auth' = RefreshedAuth(r)
    /\ result' = RefreshResult(r)
    /\ hist' = RefreshHist(r)
    /\ issued' = IF r.outcome = "ok" THEN issued + 1 ELSE issued
    /\ pc' = "idle"
    /\ UNCHANGED <<now, phase, flow, auto_refresh, handle, op, req, calls>>

\* -------------------------------------------------------------- request
\* The verb adapters: get passes a query and no body, post/put/delete pass
\* the body they are given and no query.
get == [method |-> "GET", body |-> None]
post(body) == [method |-> "POST", body |-> body]
put(body) == [method |-> "PUT", body |-> body]
delete(body) == [method |-> "DELETE", body |-> body]

\* enum Body: Json(P) carries a serialisable value (left abstract), File
\* carries bytes.
Json == [kind |-> "Json", data |-> <<>>]
File(bytes) == [kind |-> "File", data |-> bytes]

\* The raw images a caller can pass to add_playlist_image (bytes 0..255).
Images == {<<255>>, <<77, 97>>, <<77, 97, 110>>}

\* The STANDARD alphabet: A-Z a-z 0-9 + / as ASCII bytes.
Base64Char(i) ==
    IF i < 26 THEN 65 + i
    ELSE IF i < 52 THEN 71 + i
    ELSE IF i < 62 THEN i - 4
    ELSE IF i = 62 THEN 43 ELSE 47

\* general_purpose::STANDARD.encode(image).into_bytes(): three bytes give
\* four characters; a rest of one or two bytes is padded with '='.
RECURSIVE Base64Encode(_)
Base64Encode(b) ==
    IF Len(b) = 0 THEN <<>>
    ELSE IF Len(b) = 1
    THEN <<Base64Char(b[1] \div 4), Base64Char((b[1] % 4) * 16), 61, 61>>
    ELSE IF Len(b) = 2
    THEN LET n == b[1] * 256 + b[2]
         IN  <<Base64Char(n \div 1024), Base64Char((n \div 16) % 64),
               Base64Char((n % 16) * 4), 61>>
    ELSE LET n == b[1] * 65536 + b[2] * 256 + b[3]
         IN  <<Base64Char(n \div 262144), Base64Char((n \div 4096) % 64),
               Base64Char((n \div 64) % 64), Base64Char(n % 64)>>
             \o Base64Encode(SubSeq(b, 4, Len(b)))

EntryPoint(name, verb, gated) ==
    [name |-> name, method |-> verb.method, body |-> verb.body,
     authorised |-> gated, image |-> <<>>]

\* Entry points of impl<F: AuthFlow> Client<Token, F>.
album == EntryPoint("album", get, FALSE)
get_artists == EntryPoint("get_artists", get, FALSE)
create_playlist == EntryPoint("create_playlist", post(Some(Json)), FALSE)

\* add_playlist_image(id, image): the image is base64-encoded and put as a
\* File body.
add_playlist_image(image) ==
    [EntryPoint("add_playlist_image",
                put(Some(File(Base64Encode(image)))), FALSE)
       EXCEPT !.image = image]

\* Entry points of impl<F: AuthFlow + Authorised> Client<Token, F>.
save_albums == EntryPoint("save_albums", put(Some(Json)), TRUE)
remove_saved_albums == EntryPoint("remove_saved_albums", delete(Some(Json)), TRUE)
save_audiobooks == EntryPoint("save_audiobooks", put(None), TRUE)
remove_saved_audiobooks == EntryPoint("remove_saved_audiobooks", delete(None), TRUE)

EntryPoints ==
    {album, get_artists, create_playlist, save_albums,
     remove_saved_albums, save_audiobooks, remove_saved_audiobooks}
    \cup {add_playlist_image(image) : image \in Images}

\* The Content-Type the request goes out with: `.json(&j)` sets
\* application/json, `.body(f)` and the bodiless request set none.
ContentType(body) ==
    IF body # None /\ body[1].kind = "Json"
    THEN Some("application/json") ELSE None

\* Content-Length: 0 attached to a bodiless PUT only.
BuildRequest_PutOnly(method, bearer, body) ==
    [target |-> "api", method |-> method, grant |-> "none",
     secret |-> None, pkce |-> FALSE, bearer |-> bearer,
     body |-> body, content_type |-> ContentType(body),
     content_length |-> IF body = None /\ method = "PUT"
                        THEN Some(0) ELSE None]

\* The request as built: bearer_auth(access token), then the body when
\* there is one (json or raw bytes), else the header Content-Length: 0.
BuildRequest(method, bearer, body) ==
    [target |-> "api", method |-> method, grant |-> "none",
     secret |-> None, pkce |-> FALSE, bearer |-> bearer,
     body |-> body, content_type |-> ContentType(body),
     content_length |-> IF body = None THEN Some(0) ELSE None]

\* The freshness check repeated after the refresh: a new token that is
\* already expired returns from request too.
ReturnsEarly_Recheck(res) == res.kind # "Ok" \/ is_expired(auth', now)

\* The result of the refresh ignored (`let _ = ...` instead of `?`).
ReturnsEarly_Never(res) == FALSE

\* `?` applied to the result of request_refresh_token: an Err returns from
\* request.
ReturnsEarly(res) == res.kind # "Ok"

\* What the API can answer: the send fails, or a status with a body.
ApiResponses ==
    { [outcome |-> "transport", status |-> 0, body |-> "html"] }
    \cup { [outcome |-> "response", status |-> st, body |-> b] :
             st \in Statuses, b \in Bodies }

\* Redirections taken for successes.
is_success_Below400(status) == status < 400

\* res.status().is_success()
is_success(status) == 200 <= status /\ status < 300

\* auto_refresh taken as "refresh before every request".
FreshnessCheck_Eager(t, clock, ar) ==
    IF ar THEN "refresh"
    ELSE IF is_expired(t, clock) THEN "fail" ELSE "proceed"

\* The else branch left out: an expired token without auto_refresh goes on.
FreshnessCheck_NoFail(t, clock, ar) ==
    IF is_expired(t, clock) /\ ar THEN "refresh" ELSE "proceed"

\* The freshness check at the head of request: "refresh" when the token is
\* expired and auto_refresh is set, "fail" when it is expired and
\* auto_refresh is not set, "proceed" otherwise.
FreshnessCheck(t, clock, ar) ==
    IF is_expired(t, clock)
    THEN IF ar THEN "refresh" ELSE "fail"
    ELSE "proceed"

\* request up to its first await: the freshness check, then either the
\* refresh (auto_refresh), ExpiredToken, or the request built and sent.
request(ep) ==
    /\ phase = "Token"
    /\ ExclusiveBorrow
    /\ ep.authorised => flow \in Authorised
    /\ op' = "request"
    /\ req' = ep
    /\ LET check == FreshnessCheck(auth, now, auto_refresh)
           refreshing == check = "refresh"
           returned == refreshing /\ RefreshStart.pc = "idle"
       IN  /\ hist' = [NoHist EXCEPT
                         !.expired = is_expired(auth, now),
                         !.auto = auto_refresh,
                         !.prior = auth,
                         !.refresh = IF returned THEN "failed" ELSE "none"]
           /\ IF check = "fail"
              THEN /\ calls' = <<>>
                   /\ result' = Err("ExpiredToken")
                   /\ pc' = "idle"
              ELSE IF refreshing /\ ~returned
              THEN /\ calls' = RefreshStart.calls
                   /\ result' = NoResult
                   /\ pc' = "exchange"
              ELSE IF returned /\ ReturnsEarly(RefreshStart.result)
              THEN /\ calls' = RefreshStart.calls
                   /\ result' = RefreshStart.result
                   /\ pc' = "idle"
              ELSE /\ calls' = <<BuildRequest(ep.method, auth.access_token,
                                              ep.body)>>
                   /\ result' = NoResult
                   /\ pc' = "send"
    /\ UNCHANGED <<now, phase, flow, auto_refresh, auth, handle, issued>>

\* request after the await of request_refresh_token: `?` returns its error;
\* otherwise the request is built with the token now in self.auth and sent.
request_refreshed(r) ==
    /\ op = "request"
    /\ pc = "exchange"
    /\ auth' = RefreshedAuth(r)
    /\ hist' = RefreshHist(r)
    /\ issued' = IF r.outcome = "ok" THEN issued + 1 ELSE issued
    /\ IF ReturnsEarly(RefreshResult(r))
       THEN /\ result' = RefreshResult(r)
            /\ calls' = calls
            /\ pc' = "idle"
       ELSE /\ result' = NoResult
            /\ calls' = Append(calls, BuildRequest(req.method,
                                                   auth'.access_token, req.body))
            /\ pc' = "send"
    /\ UNCHANGED <<now, phase, flow, auto_refresh, handle, op, req>>

\* request after `req.send().await` and the decode of the body.
request_return(resp) ==
    /\ op = "request"
    /\ pc = "send"
    /\ hist' = [hist EXCEPT !.response = Some(resp)]
    /\ result' =
         IF resp.outcome = "transport"
         THEN FromReqwestError("request")
         ELSE IF is_success(resp.status)
              THEN IF resp.body = "value"
                   THEN Ok ELSE FromReqwestError("decode")
              ELSE IF resp.body = "envelope"
                   THEN FromSpotifyError(resp.status)
                   ELSE FromReqwestError("decode")
    /\ pc' = "idle"
    /\ UNCHANGED <<now, phase, flow, auto_refresh, auth, handle, op, req,
                   calls, issued>>

\* ------------------------------------------------------------- Cancel
\* The caller drops the future at an await point.  authenticate took the
\* client by value, so the client goes with the future; request and
\* request_refresh_token only borrowed it.
Cancel ==
    /\ pc # "idle"
    /\ pc' = "idle"
    /\ result' = Err("Cancelled")
    /\ phase' = IF op \in {"authenticate_pkce", "authenticate_code",
                           "authenticate_creds", "from_refresh_token"}
                THEN "NoClient" ELSE phase
    /\ UNCHANGED <<now, flow, auto_refresh, auth, handle, op, req, calls,
                   issued, hist>>

Next ==
    \/ Tick
    \/ \E f \in AuthFlow, ar \in BOOLEAN : new(f, ar)
    \/ \E ar \in BOOLEAN : set_auto_refresh(ar)
    \/ \E c \in CsrfStates : get_authorisation_pkce(c)
    \/ \E c \in CsrfStates : get_authorisation(c)
    \/ \E s \in CsrfStates : authenticate_pkce(s)
    \/ \E r \in TokenResponses("authorization_code") : authenticate_pkce_return(r)
    \/ \E s \in CsrfStates : authenticate_code(s)
    \/ \E r \in TokenResponses("authorization_code") : authenticate_code_return(r)
    \/ authenticate_creds
    \/ \E r \in TokenResponses("client_credentials") : authenticate_creds_return(r)
    \/ \E f \in AuthFlow, ar \in BOOLEAN, rt \in CallerRefreshTokens :
          from_refresh_token(f, ar, rt)
    \/ \E r \in TokenResponses("refresh_token") : from_refresh_token_return(r)
    \/ request_refresh_token
    \/ \E r \in TokenResponses("refresh_token") : request_refresh_token_return(r)
    \/ \E ep \in EntryPoints : request(ep)
    \/ \E r \in TokenResponses("refresh_token") : request_refreshed(r)
    \/ \E resp \in ApiResponses : request_return(resp)
    \/ Cancel

Spec == Init /\ [][Next]_vars

TypeOK ==
    /\ now \in 0..MaxTime
    /\ phase \in {"NoClient", "UnAuthenticated", "Token"}
    /\ flow \in AuthFlow
    /\ auto_refresh \in BOOLEAN
    /\ pc \in {"idle", "exchange", "send"}
    /\ issued \in 0..MaxIssued
    /\ Len(calls) <= 2

\* ============================================================ properties
IsApi(c) == c.target = "api"
IsToken(c) == c.target = "token"
ApiCalls == SelectSeq(calls, IsApi)
TokenCalls == SelectSeq(calls, IsToken)

\* C1: a request that starts with an expired token and auto_refresh set
\* never sends the API request first; once its refresh has succeeded it has
\* made exactly one refresh exchange (presenting the stored refresh token)
\* followed by exactly one API request, and that request bears the access
\* token the refresh issued, not the expired one.
C1_RefreshThenRequest ==
    (op = "request" /\ hist.expired /\ hist.auto) =>
        /\ calls # <<>> => calls[1] = TokenCall("refresh_token",
                                                hist.prior.refresh_token, FALSE)
        /\ Len(ApiCalls) > 0 => hist.refresh = "ok"
        /\ hist.refresh = "ok" =>
              /\ Len(calls) = 2
              /\ Len(TokenCalls) = 1
              /\ IsApi(calls[2])
              /\ calls[2].method = req.method
              /\ calls[2].bearer = hist.granted[1].access_token
              /\ calls[2].bearer # hist.prior.access_token
              /\ auth.access_token = calls[2].bearer

C1_Witness ==
    /\ op = "request" /\ pc = "idle" /\ result = Ok
    /\ req = album
    /\ hist.expired /\ hist.auto /\ hist.prior.stamped
    /\ flow = AuthCodeGrantFlow
    /\ Len(calls) = 2 /\ IsToken(calls[1]) /\ IsApi(calls[2])

\* C2: a request that starts with an expired token and auto_refresh unset
\* has returned ExpiredToken, has made no HTTP call and has left the token
\* as it was.
C2_ExpiredWithoutAutoRefresh ==
    (op = "request" /\ hist.expired /\ ~hist.auto) =>
        /\ pc = "idle"
        /\ result = Err("ExpiredToken")
        /\ calls = <<>>
        /\ auth = hist.prior

C2_Witness ==
    /\ op = "request" /\ pc = "idle" /\ result = Err("ExpiredToken")
    /\ hist.expired /\ ~hist.auto /\ hist.prior.stamped
    /\ flow = AuthCodeGrantFlow

\* C3: when the refresh made at the head of request fails, request has
\* returned the refresh's error (OAuth from the exchange, RefreshUnavailable
\* without a refresh token), no API request was sent, at most one exchange
\* was made and the token is as it was.
C3_FailedRefreshStopsRequest ==
    (op = "request" /\ hist.refresh = "failed") =>
        /\ pc = "idle"
        /\ result = IF hist.prior.refresh_token = None
                    THEN Err("RefreshUnavailable") ELSE Err("OAuth")
        /\ Len(ApiCalls) = 0
        /\ Len(TokenCalls) <= 1
        /\ auth = hist.prior

C3_Witness ==
    /\ op = "request" /\ pc = "idle" /\ hist.refresh = "failed"
    /\ result = Err("OAuth")
    /\ Len(calls) = 1 /\ IsToken(calls[1])

\* C4: request_refresh_token, called by the caller or by request, on a
\* token without a refresh token has returned RefreshUnavailable, has made
\* no exchange and has left the token as it was.
C4_RefreshUnavailable ==
    /\ (op = "request_refresh_token" /\ hist.prior.refresh_token = None) =>
          /\ pc = "idle"
          /\ result = Err("RefreshUnavailable")
          /\ calls = <<>>
          /\ auth = hist.prior
    /\ (op = "request" /\ hist.expired /\ hist.auto
           /\ hist.prior.refresh_token = None) =>
          /\ pc = "idle"
          /\ result = Err("RefreshUnavailable")
          /\ calls = <<>>
          /\ auth = hist.prior

C4_Witness ==
    /\ op = "request_refresh_token" /\ pc = "idle"
    /\ result = Err("RefreshUnavailable")
    /\ auth.refresh_token = None /\ calls = <<>>

\* C5: after a successful refresh the client's refresh token is the one
\* upstream returned, or - when upstream returned none - the one the client
\* held before; so a client that had a refresh token still has one.
C5_RefreshTokenRetained ==
    (op \in {"request_refresh_token", "request"} /\ hist.refresh = "ok") =>
        /\ auth.refresh_token =
              IF hist.granted[1].refresh_token # None
              THEN hist.granted[1].refresh_token
              ELSE hist.prior.refresh_token
        /\ auth.refresh_token # None

\* C6: the client from_refresh_token(rt) returns holds rt as its refresh
\* token when the response carried none, and the new one when it did.
C6_FromRefreshTokenKeepsSupplied ==
    (op = "from_refresh_token" /\ phase = "Token") =>
        auth.refresh_token =
            IF hist.granted[1].refresh_token # None
            THEN hist.granted[1].refresh_token
            ELSE hist.supplied

\* C7: in both code-grant flows an authenticate whose csrf_state differs
\* from the handle's has returned InvalidStateParameter without any network
\* call and has produced no Token client; the exchange is on the wire only
\* when the two are equal.
C7_CsrfMismatchRejected ==
    (op \in {"authenticate_pkce", "authenticate_code"}
       /\ hist.received # hist.expected) =>
        /\ pc = "idle"
        /\ result = Err("InvalidStateParameter")
        /\ calls = <<>>
        /\ phase # "Token"

C7_Witness ==
    /\ op = "authenticate_pkce" /\ pc = "idle"
    /\ hist.received = "s1" /\ hist.expected = "s2"
    /\ result = Err("InvalidStateParameter")
    /\ phase = "NoClient"

\* C8: every token a Token client holds has had its timestamps stamped.
C8_TokenAlwaysStamped ==
    phase = "Token" => auth.stamped

\* C9: for a response whose status is not 2xx, request has returned the Api
\* error of the envelope when the body is the envelope, MalformedResponse
\* when it is not, and never a success.
C9_NonSuccessIsError ==
    (op = "request" /\ pc = "idle" /\ hist.response # None
       /\ hist.response[1].outcome = "response"
       /\ ~(hist.response[1].status \in 200..299)) =>
        /\ result # Ok
        /\ result = IF hist.response[1].body = "envelope"
                    THEN [kind |-> "Api", status |-> hist.response[1].status]
                    ELSE Err("MalformedResponse")

C9_Witness ==
    /\ op = "request" /\ pc = "idle" /\ hist.response # None
    /\ hist.response[1] = [outcome |-> "response", status |-> 403,
                            body |-> "html"]
    /\ result = Err("MalformedResponse")

\* C10: every API request sent for a call without a body carries
\* Content-Length: 0 and no body, whatever the method; one sent for a call
\* with a body carries that body; save_audiobooks sends a PUT with
\* Content-Length: 0 and no body.
C10_ContentLengthZero ==
    op = "request" =>
        \A i \in 1..Len(calls) :
            IsApi(calls[i]) =>
                /\ calls[i].method = req.method
                /\ calls[i].body = req.body
                /\ req.body = None => calls[i].content_length = Some(0)
                /\ req.name = "save_audiobooks" =>
                      /\ calls[i].method = "PUT"
                      /\ calls[i].body = None
                      /\ calls[i].content_length = Some(0)

C10_Witness ==
    /\ op = "request" /\ pc = "send"
    /\ req = remove_saved_audiobooks
    /\ Len(calls) = 2
    /\ calls[2].method = "DELETE"
    /\ calls[2].body = None
    /\ calls[2].content_length = Some(0)

\* The endpoints the specification counts as user-centric: saved items and
\* the mutation of the caller's playlists.
UserCentric ==
    {"save_albums", "remove_saved_albums", "save_audiobooks",
     "remove_saved_audiobooks", "create_playlist", "add_playlist_image"}

\* C11: an API request of a user-centric endpoint is sent only by a Token
\* client whose flow is AuthCodeGrant or AuthCodeGrantPKCE, never by a
\* ClientCreds client; and no API request at all is sent by a client that
\* is not in the Token state.
C11_UserCentricOnlyAuthorised ==
    (op = "request" /\ Len(ApiCalls) > 0) =>
        /\ phase = "Token"
        /\ req.name \in UserCentric => flow \in Authorised

\* C12: as long as the refresh of a request_refresh_token or of a request
\* has not succeeded - it is in flight, it failed or it was cancelled - the
\* client's token is exactly the token it held when the operation started;
\* a different token is there only after a successful exchange and decode.
C12_FailedRefreshKeepsToken ==
    (op \in {"request_refresh_token", "request"}) =>
        /\ hist.refresh # "ok" => auth = hist.prior
        /\ auth # hist.prior =>
              /\ hist.refresh = "ok"
              /\ auth.access_token = hist.granted[1].access_token

C12_Witness ==
    /\ op = "request_refresh_token" /\ pc = "idle"
    /\ result = Err("Cancelled")
    /\ Len(calls) = 1 /\ IsToken(calls[1])
    /\ hist.prior.refresh_token # None
    /\ auth = hist.prior

\* The value of an ASCII character of the base64 alphabet.
Base64Value(c) ==
    IF c >= 97 THEN c - 71
    ELSE IF c >= 65 THEN c - 65
    ELSE IF c >= 48 THEN c + 4
    ELSE IF c = 43 THEN 62 ELSE 63

\* The bytes a padded base64 text stands for.
RECURSIVE Base64Decode(_)
Base64Decode(t) ==
    IF Len(t) < 4 THEN <<>>
    ELSE LET v1 == Base64Value(t[1])
             v2 == Base64Value(t[2])
             b1 == v1 * 4 + (v2 \div 16)
         IN  IF t[3] = 61 THEN <<b1>>
             ELSE LET v3 == Base64Value(t[3])
                      b2 == (v2 % 16) * 16 + (v3 \div 4)
                  IN  IF t[4] = 61 THEN <<b1, b2>>
                      ELSE <<b1, b2, (v3 % 4) * 64 + Base64Value(t[4])>>
                           \o Base64Decode(SubSeq(t, 5, Len(t)))

\* C13: the API request add_playlist_image sends is a PUT whose body is
\* the base64 text of the supplied bytes and whose Content-Type is
\* image/jpeg.
C13_ImageUploadIsBase64Jpeg ==
    op = "request" /\ req.name = "add_playlist_image" =>
        \A i \in 1..Len(calls) :
            IsApi(calls[i]) =>
                /\ calls[i].method = "PUT"
                /\ calls[i].body # None
                /\ calls[i].body[1].kind = "File"
                /\ Len(calls[i].body[1].data) = 4 * ((Len(req.image) + 2) \div 3)
                /\ Base64Decode(calls[i].body[1].data) = req.image
                /\ calls[i].content_type = Some("image/jpeg")

\* C14: while a pipeline operation is in flight no other operation starts
\* on the client: the operation, its arguments and the token it started
\* from stay the same until it has completed or been abandoned, the token
\* is replaced only by the return of the exchange in flight, and HTTP calls
\* are only added to the calls of the operation in flight.
C14_OneOperationInFlight ==
    [][ /\ pc # "idle" =>
              /\ op' = op
              /\ req' = req
              /\ hist'.prior = hist.prior
              /\ Len(calls') >= Len(calls)
              /\ SubSeq(calls', 1, Len(calls)) = calls
        /\ auth' # auth => pc = "exchange" /\ pc' # "exchange"
        /\ (op = "request" /\ Len(ApiCalls') > Len(ApiCalls)) =>
              pc' = "send" /\ pc # "send" ]_vars

C14_Witness ==
    /\ op = "request" /\ pc = "send"
    /\ Len(calls) = 2
    /\ auth # hist.prior

\* C15: a request that starts with a token that is not expired makes no
\* token exchange, whatever auto_refresh is, sends exactly one API request,
\* bearing the stored access token, and leaves the token as it was whatever
\* comes back.
C15_FreshTokenNoRefresh ==
    (op = "request" /\ ~hist.expired) =>
        /\ Len(TokenCalls) = 0
        /\ calls = <<BuildRequest(req.method, hist.prior.access_token,
                                  req.body)>>
        /\ hist.refresh = "none"
        /\ auth = hist.prior

C15_Witness ==
    /\ op = "request" /\ pc = "idle"
    /\ ~hist.expired /\ hist.auto
    /\ result = [kind |-> "Api", status |-> 403]
    /\ Len(calls) = 1
    /\ auth = hist.prior

\* A Token client whose token is expired and holds no refresh token.
Stranded ==
    /\ phase = "Token"
    /\ auth.refresh_token = None
    /\ is_expired(auth, now)

\* C16: once a Token client holds an expired token without a refresh token
\* it stays so for ever; every request it starts with auto_refresh set
\* returns RefreshUnavailable at once without an HTTP call, and no step
\* sends an API request from then on.
C16_StrandedWithoutRefreshToken ==
    [][ Stranded =>
          /\ Stranded'
          /\ auth' = auth
          /\ Len(ApiCalls') <= Len(ApiCalls)
          /\ (auto_refresh /\ \E ep \in EntryPoints : request(ep)) =>
                /\ pc' = "idle"
                /\ result' = Err("RefreshUnavailable")
                /\ calls' = <<>> ]_vars

C16_Witness ==
    /\ flow = ClientCredsGrantFlow
    /\ Stranded
    /\ op = "request" /\ pc = "idle" /\ hist.auto
    /\ result = Err("RefreshUnavailable")
    /\ calls = <<>>

\* C17: once the refresh inside a request has succeeded the client holds
\* the newly issued token whatever becomes of the API request (a failure of
\* any kind, a cancellation), and the API request has been sent with that
\* token without a second freshness check, also when the new token is
\* already expired.
C17_RefreshCommitted ==
    (op = "request" /\ hist.refresh = "ok") =>
        /\ auth = set_timestamps(hist.granted[1], auth.created_at)
        /\ auth # hist.prior
        /\ pc \in {"send", "idle"}
        /\ Len(ApiCalls) = 1
        /\ ApiCalls[1].bearer = hist.granted[1].access_token
        /\ result.kind \notin {"OAuth", "RefreshUnavailable", "ExpiredToken"}

C17_Witness ==
    /\ op = "request" /\ pc = "idle" /\ hist.refresh = "ok"
    /\ hist.granted[1].expires_in = 0
    /\ result = Err("MalformedResponse")
    /\ auth.access_token = hist.granted[1].access_token
    /\ auth # hist.prior

====
